---- MODULE Spec2Model ----
(***************************************************************************)
(* Model of the qk command runner: the registry built by                   *)
(* CreateCommandRunner / AddCommand / AddOptionalCommand, the supervision  *)
(* task runCommand with its helper goroutine and output pumps, and the     *)
(* bubbletea Update handler that folds outcome events into the registry.   *)
(*                                                                         *)
(* Two revisions of views/commandRunner.go are in the source tree:         *)
(*   - src/unnamed/part_008: AddCommand / AddOptionalCommand allocate one  *)
(*     *Command per project; runCommand pumps stdout and stderr.           *)
(*     Specification Spec.                                                 *)
(*   - src/views/commandRunner.go: AddCommand allocates ONE *Command and   *)
(*     appends the same pointer to every project; no output pumps.         *)
(*     Specification SpecViews.                                            *)
(* Project and script indexes are 1-based here (Go index + 1).             *)
(***************************************************************************)
EXTENDS Integers, Sequences, FiniteSets, TLC

\* ------------------------------------------------------------------ bounds
MaxProjects == 2
MaxUnits == 2
MaxLines == 1
MaxStreamLines == 3

\* --------------------------------------------------------------- constants
\* capacity of waitChan: make(chan error, 1)
WaitChanCap == 1
\* the two pipes of a process: StdoutPipe and StderrPipe
Streams == {"stdout", "stderr"}

\* maxLines := 50, the cap of a unit's liveOutput in Update
maxLines == 50

\* the number of lines a talkative process writes: one more than maxLines
MaxBurst == maxLines + 1

\* error values carried by commandFinishedMessage.err
\*   "nil"       no error (exit code 0)
\*   "exitErr"   *exec.ExitError, process exited with a non-zero code
\*   "signalErr" *exec.ExitError whose WaitStatus is Signaled()
\*   "ctxErr"    ctx.Err() (context.Canceled), not an ExitError
\*   "spawnErr"  error of StdoutPipe / StderrPipe / Start, not an ExitError
Errors == {"nil", "exitErr", "signalErr", "ctxErr", "spawnErr"}

VARIABLES
    projects,    \* m.projects: sequence of projects, each its Scripts (command ids)
    status,      \* Command.Status per command object
    cancelled,   \* Command.Ctx done (Cancel called) per command object
    done,        \* m.done
    cmdWg,       \* m.cmdWg counter
    upc,         \* position of the event loop: idle, wgWait, quit, stopped
    msgs,        \* messages sent to the program and not yet handled by Update
    mpc,         \* per task: position of the runCommand closure
    gpc,         \* per task: position of the helper goroutine of runCommand
    proc,        \* per task: state of the child process
    waitChan,    \* per task: contents of waitChan
    errWait,     \* per task: value returned by c.Wait()
    pipe,        \* per task and stream: lines written by the process, not yet scanned
    ppc,         \* per task and stream: position of the output pump
    written,     \* number of lines the processes have written so far
    outputBuf,   \* Command.Output per command object
    liveOutput,  \* m.liveOutput per "projIndex-scriptIndex"
    gval,        \* per task: the value the helper goroutine received from waitChan
    emitted,     \* number of programDoneMessage commands Update has returned
    hist,        \* observation, per task: whether the unit's token was cancelled
                 \* when the closure returned
    tree,        \* the directories below the working directory, and which of
                 \* them are projects
    depth,       \* the --depth flag
    found,       \* the result of utils.GetAllProjects
    attrs,       \* per discovered project: whether it has a yarn.lock, and the
                 \* scripts its package.json declares
    script       \* Command.Script per command object a cobra command registered

vars == <<projects, status, cancelled, done, cmdWg, upc, msgs, mpc, gpc, proc,
          waitChan, errWait, pipe, ppc, written, outputBuf, liveOutput, gval,
          emitted, hist, tree, depth, found, attrs, script>>

\* what the run reads before it starts: the file system and the flags
env == <<tree, depth, found, attrs, script>>

\* the file system is not looked at once the runner has been built
NoDiscovery ==
    /\ tree = [dirs |-> {}, proj |-> {}]
    /\ depth = -1
    /\ found = <<>>
    /\ attrs = <<>>
    /\ script = <<>>

\* ---------------------------------------------------------------- registry
\* The registry under construction: the projects' Scripts, each script a
\* *Command pointer, and the set of Command objects allocated. A Command
\* object is named by the first (project, script) place that holds it.

\* CreateCommandRunner: one project per discovered directory, no script yet
CreateCommandRunner(n) ==
    [projects |-> [i \in 1..n |-> <<>>], cmds |-> {}]

RECURSIVE AddFrom(_, _, _)
\* the loop "for i, proj := range m.projects" of AddOptionalCommand, from
\* project i on: a new Command for every project the predicate holds for
AddFrom(reg, i, shouldAdd) ==
    IF i > Len(reg.projects) THEN reg
    ELSE IF i \in shouldAdd
         THEN LET cmd == <<i, Len(reg.projects[i]) + 1>>
              IN  AddFrom([projects |-> [reg.projects EXCEPT ![i] = Append(@, cmd)],
                           cmds |-> reg.cmds \cup {cmd}], i + 1, shouldAdd)
         ELSE AddFrom(reg, i + 1, shouldAdd)

\* an AddOptionalCommand that does not ask the predicate
AddOptionalIgnoresPredicate(reg, shouldAdd) == AddFrom(reg, 1, 1..Len(reg.projects))

\* AddOptionalCommand: shouldAdd is the set of projects the predicate holds for
AddOptionalCommand(reg, shouldAdd) == AddFrom(reg, 1, shouldAdd)

\* AddCommand of views/commandRunner.go: ONE Command, created before the loop,
\* whose pointer is appended to every project
AddCommandViews(reg) ==
    LET cmd == <<1, Len(reg.projects[1]) + 1>>
    IN  [projects |-> [i \in 1..Len(reg.projects) |-> Append(reg.projects[i], cmd)],
         cmds |-> reg.cmds \cup {cmd}]

\* an AddCommand that allocates the Command outside its loop
AddCommandShared(reg) == AddCommandViews(reg)

\* AddCommand of part_008: a new Command for every project
AddCommand(reg) == AddFrom(reg, 1, 1..Len(reg.projects))

RECURSIVE Registries(_, _)
\* registries that k or fewer AddCommand / AddOptionalCommand calls build
Registries(n, k) ==
    IF k = 0 THEN {CreateCommandRunner(n)}
    ELSE LET prev == Registries(n, k - 1)
         IN  prev \cup {AddCommand(r) : r \in prev}
                  \cup {AddOptionalCommand(r, S) : r \in prev, S \in SUBSET (1..n)}

RECURSIVE RegistriesViews(_, _)
\* registries that k or fewer AddCommand calls of views/commandRunner.go build
RegistriesViews(n, k) ==
    IF k = 0 THEN {CreateCommandRunner(n)}
    ELSE LET prev == RegistriesViews(n, k - 1)
         IN  prev \cup {AddCommandViews(r) : r \in prev}

\* ------------------------------------------------------------ derived sets
\* the (project index, script index) pairs Init starts a supervision task for
Tasks == {t \in (1..Len(projects)) \X (1..MaxUnits + 1) : t[2] <= Len(projects[t[1]])}

\* m.projects[i].Scripts[j]
CmdOf(t) == projects[t[1]][t[2]]

NumUnits(ps) ==
    LET RECURSIVE Sum(_)
        Sum(i) == IF i = 0 THEN 0 ELSE Len(ps[i]) + Sum(i - 1)
    IN  Sum(Len(ps))

\* ------------------------------------------------------------------- Init
\* model.Init: cmdWg.Add(1) and one runCommand closure per (project, script)
InitWith(reg) ==
    /\ projects = reg.projects
    /\ status = [c \in reg.cmds |-> "running"]
    /\ cancelled = [c \in reg.cmds |-> FALSE]
    /\ done = FALSE
    /\ cmdWg = NumUnits(reg.projects)
    /\ upc = "idle"
    /\ msgs = {}
    /\ LET T == {t \in (1..Len(reg.projects)) \X (1..MaxUnits + 1) :
                    t[2] <= Len(reg.projects[t[1]])}
       IN  /\ mpc = [t \in T |-> "start"]
           /\ gpc = [t \in T |-> "off"]
           /\ proc = [t \in T |-> "none"]
           /\ waitChan = [t \in T |-> <<>>]
           /\ errWait = [t \in T |-> "nil"]
           /\ pipe = [t \in T |-> [s \in Streams |-> <<>>]]
           /\ ppc = [t \in T |-> [s \in Streams |-> "off"]]
           /\ liveOutput = [t \in T |-> <<>>]
           /\ gval = [t \in T |-> "nil"]
           /\ hist = [t \in T |-> "none"]
    /\ emitted = 0
    /\ written = 0
    /\ outputBuf = [c \in reg.cmds |-> 0]
    /\ NoDiscovery

Init ==
    \E n \in 1..MaxProjects : \E reg \in Registries(n, MaxUnits) :
        /\ NumUnits(reg.projects) <= MaxUnits
        /\ InitWith(reg)

\* one project with one script
InitOutput == InitWith(AddCommand(CreateCommandRunner(1)))

InitViews ==
    \E n \in 1..MaxProjects : \E reg \in RegistriesViews(n, MaxUnits) :
        /\ NumUnits(reg.projects) <= MaxUnits
        /\ InitWith(reg)

\* --------------------------------------------------------- child processes
Exited(p) == p \in {"exit0", "exitN", "sigSelf", "sigEngine"}

\* the error c.Wait() returns for a process state: nil for exit code 0, an
\* ExitError otherwise (signaled when the process was terminated by a signal)
WaitErr(p) ==
    CASE p = "exit0" -> "nil"
      [] p = "exitN" -> "exitErr"
      [] OTHER       -> "signalErr"

\* the process of task t ends by itself: exit code 0, a non-zero exit code, or a
\* signal it raised itself or got from outside the engine
ProcExit(t, how) ==
    /\ proc[t] = "running"
    /\ proc' = [proc EXCEPT ![t] = how]
    /\ UNCHANGED <<env, projects, status, cancelled, done, cmdWg, upc, msgs, mpc, gpc,
                   waitChan, errWait, pipe, ppc, written, outputBuf, liveOutput,
                   gval, emitted, hist>>

\* the process of task t writes a line to one of its output streams
ProcWrite(t, s) ==
    /\ proc[t] = "running"
    /\ written < MaxLines
    /\ written' = written + 1
    /\ pipe' = [pipe EXCEPT ![t][s] = Append(@, <<s, written + 1>>)]
    /\ UNCHANGED <<env, projects, status, cancelled, done, cmdWg, upc, msgs, mpc, gpc,
                   proc, waitChan, errWait, ppc, outputBuf, liveOutput, gval,
                   emitted, hist>>

\* the process of task t writes its next line to stdout once the pump has taken
\* the previous one out of the pipe, for one line more than Update retains
ProcWriteLine(t) ==
    /\ proc[t] = "running"
    /\ written < MaxBurst
    /\ pipe[t]["stdout"] = <<>>
    /\ written' = written + 1
    /\ pipe' = [pipe EXCEPT ![t]["stdout"] = Append(@, <<"stdout", written + 1>>)]
    /\ UNCHANGED <<env, projects, status, cancelled, done, cmdWg, upc, msgs, mpc, gpc,
                   proc, waitChan, errWait, ppc, outputBuf, liveOutput, gval,
                   emitted, hist>>

\* the process of task t writes a line to one of its streams, MaxStreamLines
\* lines at most
ProcWriteStream(t, s) ==
    /\ proc[t] = "running"
    /\ written < MaxStreamLines
    /\ written' = written + 1
    /\ pipe' = [pipe EXCEPT ![t][s] = Append(@, <<s, written + 1>>)]
    /\ UNCHANGED <<env, projects, status, cancelled, done, cmdWg, upc, msgs, mpc, gpc,
                   proc, waitChan, errWait, ppc, outputBuf, liveOutput, gval,
                   emitted, hist>>

\* exec.CommandContext: once ctx is done the exec package kills the process
CtxKill(t) ==
    /\ proc[t] = "running"
    /\ cancelled[CmdOf(t)]
    /\ proc' = [proc EXCEPT ![t] = "sigEngine"]
    /\ UNCHANGED <<env, projects, status, cancelled, done, cmdWg, upc, msgs, mpc, gpc,
                   waitChan, errWait, pipe, ppc, written, outputBuf, liveOutput,
                   gval, emitted, hist>>

\* ------------------------------------------------------------- runCommand
commandFinishedMessage(t, err) ==
    [type |-> "finished", index |-> t[1], scriptIndex |-> t[2], err |-> err]

commandOutputMessage(t, line) ==
    [type |-> "output", index |-> t[1], scriptIndex |-> t[2], output |-> line]

Observed(c) == IF cancelled[c] THEN "cancelled" ELSE "plain"

\* a return path that leaves without wg.Done()
ReturnWithoutDone(t, err) ==
    /\ mpc' = [mpc EXCEPT ![t] = "ret"]
    /\ cmdWg' = cmdWg
    /\ msgs' = msgs \cup {commandFinishedMessage(t, err)}
    /\ hist' = [hist EXCEPT ![t] = Observed(CmdOf(t))]

\* "return commandFinishedMessage{...}" with the deferred wg.Done()
Return(t, err) ==
    /\ mpc' = [mpc EXCEPT ![t] = "ret"]
    /\ cmdWg' = cmdWg - 1
    /\ msgs' = msgs \cup {commandFinishedMessage(t, err)}
    /\ hist' = [hist EXCEPT ![t] = Observed(CmdOf(t))]

\* StdoutPipe, StderrPipe or Start fails (Start fails with ctx.Err() when ctx
\* is already done): the closure returns the error
StartFail(t) ==
    /\ mpc[t] = "start"
    /\ \E err \in {"spawnErr"} \cup (IF cancelled[CmdOf(t)] THEN {"ctxErr"} ELSE {}) :
           Return(t, err)
    /\ UNCHANGED <<env, projects, status, cancelled, done, upc, gpc, proc, waitChan,
                   errWait, pipe, ppc, written, outputBuf, liveOutput, gval,
                   emitted>>

\* c.Start() succeeds (it fails when ctx is already done): the process runs,
\* the two pumps and the helper goroutine are started, the closure is in c.Wait()
StartOk(t) ==
    /\ mpc[t] = "start"
    /\ ~cancelled[CmdOf(t)]
    /\ mpc' = [mpc EXCEPT ![t] = "wait"]
    /\ proc' = [proc EXCEPT ![t] = "running"]
    /\ gpc' = [gpc EXCEPT ![t] = "select"]
    /\ ppc' = [ppc EXCEPT ![t] = [s \in Streams |-> "scan"]]
    /\ UNCHANGED <<env, projects, status, cancelled, done, cmdWg, upc, msgs, waitChan,
                   errWait, pipe, written, outputBuf, liveOutput, gval, emitted,
                   hist>>

\* errWait := c.Wait() returns once the process has ended
Wait(t) ==
    /\ mpc[t] = "wait"
    /\ Exited(proc[t])
    /\ errWait' = [errWait EXCEPT ![t] = WaitErr(proc[t])]
    /\ mpc' = [mpc EXCEPT ![t] = "send"]
    /\ UNCHANGED <<env, projects, status, cancelled, done, cmdWg, upc, msgs, gpc, proc,
                   waitChan, pipe, ppc, written, outputBuf, liveOutput, gval,
                   emitted, hist>>

\* waitChan <- errWait: blocks while the buffer is full
SendWait(t) ==
    /\ mpc[t] = "send"
    /\ Len(waitChan[t]) < WaitChanCap
    /\ waitChan' = [waitChan EXCEPT ![t] = Append(@, errWait[t])]
    /\ mpc' = [mpc EXCEPT ![t] = "recv"]
    /\ UNCHANGED <<env, projects, status, cancelled, done, cmdWg, upc, msgs, gpc, proc,
                   errWait, pipe, ppc, written, outputBuf, liveOutput, gval,
                   emitted, hist>>

\* finalErr := <-waitChan; return commandFinishedMessage{..., finalErr}
RecvFinal(t) ==
    /\ mpc[t] = "recv"
    /\ Len(waitChan[t]) > 0
    /\ waitChan' = [waitChan EXCEPT ![t] = Tail(@)]
    /\ Return(t, Head(waitChan[t]))
    /\ UNCHANGED <<env, projects, status, cancelled, done, upc, gpc, proc, errWait,
                   pipe, ppc, written, outputBuf, liveOutput, gval, emitted>>

\* helper goroutine, case <-ctx.Done(): SIGTERM to the process group; the
\* process dies of it or not (it may ignore or handle the signal)
GCtxDone(t) ==
    /\ gpc[t] = "select"
    /\ cancelled[CmdOf(t)]
    /\ gpc' = [gpc EXCEPT ![t] = "sleep"]
    /\ \/ proc' = proc
       \/ /\ proc[t] = "running"
          /\ proc' = [proc EXCEPT ![t] = "sigEngine"]
    /\ UNCHANGED <<env, projects, status, cancelled, done, cmdWg, upc, msgs, mpc,
                   waitChan, errWait, pipe, ppc, written, outputBuf, liveOutput,
                   gval, emitted, hist>>

\* helper goroutine: the 100 ms sleep is over, SIGKILL to the process group
GKill(t) ==
    /\ gpc[t] = "sleep"
    /\ gpc' = [gpc EXCEPT ![t] = "sendctx"]
    /\ proc' = [proc EXCEPT ![t] = IF @ = "running" THEN "sigEngine" ELSE @]
    /\ UNCHANGED <<env, projects, status, cancelled, done, cmdWg, upc, msgs, mpc,
                   waitChan, errWait, pipe, ppc, written, outputBuf, liveOutput,
                   gval, emitted, hist>>

\* helper goroutine: waitChan <- ctx.Err()
GSendCtx(t) ==
    /\ gpc[t] = "sendctx"
    /\ Len(waitChan[t]) < WaitChanCap
    /\ waitChan' = [waitChan EXCEPT ![t] = Append(@, "ctxErr")]
    /\ gpc' = [gpc EXCEPT ![t] = "done"]
    /\ UNCHANGED <<env, projects, status, cancelled, done, cmdWg, upc, msgs, mpc, proc,
                   errWait, pipe, ppc, written, outputBuf, liveOutput, gval,
                   emitted, hist>>

\* helper goroutine, case errWait := <-waitChan
GRecv(t) ==
    /\ gpc[t] = "select"
    /\ Len(waitChan[t]) > 0
    /\ gval' = [gval EXCEPT ![t] = Head(waitChan[t])]
    /\ waitChan' = [waitChan EXCEPT ![t] = Tail(@)]
    /\ gpc' = [gpc EXCEPT ![t] = "fwd"]
    /\ UNCHANGED <<env, projects, status, cancelled, done, cmdWg, upc, msgs, mpc, proc,
                   errWait, pipe, ppc, written, outputBuf, liveOutput, emitted,
                   hist>>

\* a helper goroutine that forwards nil in place of the value it received
GFwdNil(t) ==
    /\ gpc[t] = "fwd"
    /\ Len(waitChan[t]) < WaitChanCap
    /\ waitChan' = [waitChan EXCEPT ![t] = Append(@, "nil")]
    /\ gpc' = [gpc EXCEPT ![t] = "done"]
    /\ UNCHANGED <<env, projects, status, cancelled, done, cmdWg, upc, msgs, mpc, proc,
                   errWait, pipe, ppc, written, outputBuf, liveOutput, gval,
                   emitted, hist>>

\* helper goroutine: waitChan <- errWait; return
GFwd(t) ==
    /\ gpc[t] = "fwd"
    /\ Len(waitChan[t]) < WaitChanCap
    /\ waitChan' = [waitChan EXCEPT ![t] = Append(@, gval[t])]
    /\ gpc' = [gpc EXCEPT ![t] = "done"]
    /\ UNCHANGED <<env, projects, status, cancelled, done, cmdWg, upc, msgs, mpc, proc,
                   errWait, pipe, ppc, written, outputBuf, liveOutput, gval,
                   emitted, hist>>

\* the other pump of the same unit is about to write command.Output too: the
\* two WriteString calls on the one bytes.Buffer are not synchronised
Racing(t, s) ==
    \E o \in Streams \ {s} : ppc[t][o] = "scan" /\ Len(pipe[t][o]) > 0

\* a pump whose send does not wait for the event loop to take the message
PumpScanAsync(t, s) ==
    /\ ppc[t][s] = "scan"
    /\ mpc[t] = "wait"
    /\ Len(pipe[t][s]) > 0
    /\ pipe' = [pipe EXCEPT ![t][s] = Tail(@)]
    /\ IF cancelled[CmdOf(t)]
       THEN /\ ppc' = [ppc EXCEPT ![t][s] = "end"]
            /\ UNCHANGED <<env, outputBuf, msgs>>
       ELSE /\ \/ outputBuf' = [outputBuf EXCEPT ![CmdOf(t)] = @ + 1]
               \/ Racing(t, s) /\ outputBuf' = outputBuf
            /\ msgs' = msgs \cup {commandOutputMessage(t, Head(pipe[t][s]))}
            /\ UNCHANGED ppc
    /\ UNCHANGED <<env, projects, status, cancelled, done, cmdWg, upc, mpc, gpc, proc,
                   waitChan, errWait, written, liveOutput, gval, emitted, hist>>

\* output pump of stream s: scanner.Scan() yields the next line; when ctx is
\* done the pump returns, else it writes command.Output and sends the line to
\* the program (program.Send returns once the event loop has taken the message).
\* An unsynchronised write that races with the other pump's may be lost.
PumpScan(t, s) ==
    /\ ppc[t][s] = "scan"
    /\ mpc[t] = "wait"
    /\ Len(pipe[t][s]) > 0
    /\ \A m \in msgs : ~(m.type = "output" /\ m.index = t[1]
                         /\ m.scriptIndex = t[2] /\ m.output[1] = s)
    /\ pipe' = [pipe EXCEPT ![t][s] = Tail(@)]
    /\ IF cancelled[CmdOf(t)]
       THEN /\ ppc' = [ppc EXCEPT ![t][s] = "end"]
            /\ UNCHANGED <<env, outputBuf, msgs>>
       ELSE /\ \/ outputBuf' = [outputBuf EXCEPT ![CmdOf(t)] = @ + 1]
               \/ Racing(t, s) /\ outputBuf' = outputBuf
            /\ msgs' = msgs \cup {commandOutputMessage(t, Head(pipe[t][s]))}
            /\ UNCHANGED ppc
    /\ UNCHANGED <<env, projects, status, cancelled, done, cmdWg, upc, mpc, gpc, proc,
                   waitChan, errWait, written, liveOutput, gval, emitted, hist>>

\* ------------------------------------------------------------------ Update
IsExitError(err) == err \in {"exitErr", "signalErr"}

\* a classification that takes every ExitError for a signal kill
wasKilledByAnyExit(err) == IsExitError(err)

\* wasKilledBySignal: true exactly for an ExitError whose WaitStatus is Signaled
wasKilledBySignal(err) ==
    IF err = "nil" THEN FALSE
    ELSE IF IsExitError(err) THEN err = "signalErr"
    ELSE FALSE

\* the status Update stores for an outcome
StatusOf(err) ==
    IF err # "nil"
    THEN IF wasKilledBySignal(err) THEN "exited" ELSE "failed"
    ELSE "finished"

programDoneMessage(success, n) == [type |-> "done", success |-> success, n |-> n]

QuitMsg == [type |-> "quit"]

\* a success fold that also counts "exited" scripts as failures
SuccessCountsExited(st) == ~\E i \in 1..Len(projects) : \E j \in 1..Len(projects[i]) :
                               st[projects[i][j]] \in {"failed", "exited"}

\* the success value Update computes: no script of any project is "failed"
Success(st) == ~\E i \in 1..Len(projects) : \E j \in 1..Len(projects[i]) :
                   st[projects[i][j]] = "failed"

\* a check that looks at the scripts of the first project only
AnyRunningFirst(st) == \E j \in 1..Len(projects[1]) : st[projects[1][j]] = "running"

\* whether some script of some project is still "running"
AnyRunning(st) == \E i \in 1..Len(projects) : \E j \in 1..Len(projects[i]) :
                      st[projects[i][j]] = "running"

\* CancelScripts: Cancel() of every script of every project
CancelScripts ==
    cancelled' = [c \in DOMAIN cancelled |->
                     IF \E t \in Tasks : CmdOf(t) = c THEN TRUE ELSE cancelled[c]]

\* m.projects[msg.index].Scripts[msg.scriptIndex]: the place the outcome is stored at
Target(msg) == <<msg.index, msg.scriptIndex>>

\* case commandFinishedMessage
UpdateFinished(msg) ==
    /\ upc = "idle"
    /\ msg \in msgs
    /\ msg.type = "finished"
    /\ LET t == Target(msg)
           st == [status EXCEPT ![CmdOf(t)] = StatusOf(msg.err)]
       IN  /\ status' = st
           /\ IF AnyRunning(st)
              THEN /\ done' = FALSE
                   /\ msgs' = msgs \ {msg}
                   /\ UNCHANGED emitted
              ELSE /\ done' = TRUE
                   /\ msgs' = (msgs \ {msg}) \cup {programDoneMessage(Success(st), emitted)}
                   /\ emitted' = emitted + 1
    /\ UNCHANGED <<env, projects, cancelled, cmdWg, upc, mpc, gpc, proc, waitChan,
                   errWait, pipe, ppc, written, outputBuf, liveOutput, gval, hist>>

\* case commandFinishedMessage as a function of the registry: r holds the
\* statuses, the done flag, the number of done(success) commands returned so
\* far and the success value of the last one
ApplyFinished(r, msg) ==
    LET st == [r.status EXCEPT ![CmdOf(Target(msg))] = StatusOf(msg.err)]
    IN  IF AnyRunning(st)
        THEN [status |-> st, done |-> FALSE, emitted |-> r.emitted,
              success |-> r.success]
        ELSE [status |-> st, done |-> TRUE, emitted |-> r.emitted + 1,
              success |-> Success(st)]

\* case programDoneMessage: CancelScripts, return tea.Quit
UpdateDone(msg) ==
    /\ upc = "idle"
    /\ msg \in msgs
    /\ msg.type = "done"
    /\ CancelScripts
    /\ msgs' = (msgs \ {msg}) \cup {QuitMsg}
    /\ UNCHANGED <<env, projects, status, done, cmdWg, upc, mpc, gpc, proc, waitChan,
                   errWait, pipe, ppc, written, outputBuf, liveOutput, gval,
                   emitted, hist>>

\* a trim that keeps the oldest maxLines elements of a slice
FirstLines(seq) ==
    IF Len(seq) > maxLines THEN SubSeq(seq, 1, maxLines) ELSE seq

\* the last maxLines elements of a slice
LastLines(seq) ==
    IF Len(seq) > maxLines THEN SubSeq(seq, Len(seq) - maxLines + 1, Len(seq)) ELSE seq

\* an output handler whose key is the project index alone
UpdateOutputByProject(msg) ==
    /\ upc = "idle"
    /\ msg \in msgs
    /\ msg.type = "output"
    /\ LET t == <<msg.index, 1>>
       IN  liveOutput' = [liveOutput EXCEPT ![t] = LastLines(Append(@, msg.output))]
    /\ msgs' = msgs \ {msg}
    /\ UNCHANGED <<env, projects, status, cancelled, done, cmdWg, upc, mpc, gpc, proc,
                   waitChan, errWait, pipe, ppc, written, outputBuf, gval, emitted,
                   hist>>

\* case commandOutputMessage: append to liveOutput[key], keep the last maxLines
UpdateOutput(msg) ==
    /\ upc = "idle"
    /\ msg \in msgs
    /\ msg.type = "output"
    /\ LET t == <<msg.index, msg.scriptIndex>>
       IN  liveOutput' = [liveOutput EXCEPT ![t] = LastLines(Append(@, msg.output))]
    /\ msgs' = msgs \ {msg}
    /\ UNCHANGED <<env, projects, status, cancelled, done, cmdWg, upc, mpc, gpc, proc,
                   waitChan, errWait, pipe, ppc, written, outputBuf, gval, emitted,
                   hist>>

\* case tea.KeyMsg, Quit: CancelScripts, then the handler blocks in cmdWg.Wait()
UpdateQuitKey ==
    /\ upc = "idle"
    /\ CancelScripts
    /\ upc' = "wgWait"
    /\ UNCHANGED <<env, projects, status, done, cmdWg, msgs, mpc, gpc, proc, waitChan,
                   errWait, pipe, ppc, written, outputBuf, liveOutput, gval,
                   emitted, hist>>

\* cmdWg.Wait() returns when the counter is zero; the handler returns tea.Quit
UpdateQuitReturn ==
    /\ upc = "wgWait"
    /\ cmdWg = 0
    /\ upc' = "idle"
    /\ msgs' = msgs \cup {QuitMsg}
    /\ UNCHANGED <<env, projects, status, cancelled, done, cmdWg, mpc, gpc, proc,
                   waitChan, errWait, pipe, ppc, written, outputBuf, liveOutput,
                   gval, emitted, hist>>

\* a tick handler that rebuilds every project without its Scripts
UpdateTickRebuilds ==
    /\ upc = "idle"
    /\ projects' = [i \in 1..Len(projects) |-> <<>>]
    /\ UNCHANGED <<env, status, cancelled, done, cmdWg, upc, msgs, mpc, gpc, proc,
                   waitChan, errWait, pipe, ppc, written, outputBuf, liveOutput,
                   gval, emitted, hist>>

\* case tea.KeyMsg (Scripts, Timer, Debug, Help) and case spinner.TickMsg: they
\* change display flags and spinner frames only, none of the modelled state
UpdateDisplay ==
    /\ upc = "idle"
    /\ UNCHANGED vars

\* tea.Quit reaches the event loop: the program stops handling messages
ProgramQuit ==
    /\ upc = "idle"
    /\ QuitMsg \in msgs
    /\ upc' = "stopped"
    /\ msgs' = msgs \ {QuitMsg}
    /\ UNCHANGED <<env, projects, status, cancelled, done, cmdWg, mpc, gpc, proc,
                   waitChan, errWait, pipe, ppc, written, outputBuf, liveOutput,
                   gval, emitted, hist>>

\* ------------------------------------------------------- specifications
TaskStep(t) ==
    \/ StartFail(t)
    \/ StartOk(t)
    \/ \E how \in {"exit0", "exitN", "sigSelf"} : ProcExit(t, how)
    \/ CtxKill(t)
    \/ Wait(t)
    \/ SendWait(t)
    \/ RecvFinal(t)
    \/ GCtxDone(t)
    \/ GKill(t)
    \/ GSendCtx(t)
    \/ GRecv(t)
    \/ GFwd(t)

PumpStep(t) ==
    \/ \E s \in Streams : ProcWrite(t, s)
    \/ \E s \in Streams : PumpScan(t, s)

UpdateStep ==
    \/ \E msg \in msgs : UpdateFinished(msg)
    \/ \E msg \in msgs : UpdateDone(msg)
    \/ UpdateQuitKey
    \/ UpdateQuitReturn
    \/ UpdateDisplay
    \/ ProgramQuit

\* the goroutines run until the program exits, which it does once p.Run()
\* has returned
Alive == upc # "stopped"

Next ==
    \/ Alive /\ \E t \in Tasks : TaskStep(t)
    \/ Alive /\ \E t \in Tasks : PumpStep(t)
    \/ \E msg \in msgs : UpdateOutput(msg)
    \/ UpdateStep

Spec == Init /\ [][Next]_vars

\* views/commandRunner.go: no output pumps, no commandOutputMessage
NextViews ==
    \/ Alive /\ \E t \in Tasks : TaskStep(t)
    \/ UpdateStep

SpecViews == InitViews /\ [][NextViews]_vars

\* one unit whose process writes MaxBurst lines to stdout
NextOutput ==
    \/ Alive /\ \E t \in Tasks : TaskStep(t)
    \/ Alive /\ \E t \in Tasks : ProcWriteLine(t)
    \/ Alive /\ \E t \in Tasks : PumpScan(t, "stdout")
    \/ \E msg \in msgs : UpdateOutput(msg)
    \/ UpdateStep

SpecOutput == InitOutput /\ [][NextOutput]_vars

\* one unit whose process writes MaxStreamLines lines to stdout and stderr
NextLines ==
    \/ Alive /\ \E t \in Tasks : TaskStep(t)
    \/ Alive /\ \E t \in Tasks : \E s \in Streams : ProcWriteStream(t, s)
    \/ Alive /\ \E t \in Tasks : \E s \in Streams : PumpScan(t, s)
    \/ \E msg \in msgs : UpdateOutput(msg)
    \/ UpdateStep

SpecLines == InitOutput /\ [][NextLines]_vars

\* model.Output: allFinished of project i
allFinished(i) ==
    \A j \in 1..Len(projects[i]) : status[projects[i][j]] \in {"failed", "finished"}

\* model.Output: hasError of project i
hasError(i) ==
    \E j \in 1..Len(projects[i]) : status[projects[i][j]] = "failed"

\* model.Run: p.Run() has returned without error, Output is printed and the
\* command returns; nothing on this path calls os.Exit, so the exit code is 0
RunExitCode == IF upc = "stopped" THEN 0 ELSE -1

\* ------------------------------------------------------------------ setup
\* The commands build the runner before the run: CreateCommandRunner on the
\* discovered projects (upc = "create"), AddCommand / AddOptionalCommand calls
\* (upc = "setup"), then Run, whose tea.Program calls model.Init. os.Exit(1)
\* of CreateCommandRunner is upc = "fatal".

\* the registry built so far
Registry == [projects |-> projects, cmds |-> DOMAIN status]

\* utils.GetAllProjects has returned n projects, CreateCommandRunner is running
InitSetup ==
    \E n \in 0..MaxProjects :
        /\ projects = [i \in 1..n |-> <<>>]
        /\ upc = "create"
        /\ status = <<>> /\ cancelled = <<>> /\ outputBuf = <<>>
        /\ done = FALSE /\ cmdWg = 0 /\ msgs = {} /\ emitted = 0 /\ written = 0
        /\ mpc = <<>> /\ gpc = <<>> /\ proc = <<>> /\ waitChan = <<>>
        /\ errWait = <<>> /\ pipe = <<>> /\ ppc = <<>> /\ liveOutput = <<>>
        /\ gval = <<>> /\ hist = <<>>
        /\ NoDiscovery

\* a CreateCommandRunner without the check for an empty project list
CreateRunnerUnchecked ==
    /\ upc = "create"
    /\ upc' = "setup"
    /\ UNCHANGED <<env, projects, status, cancelled, done, cmdWg, msgs, mpc, gpc, proc,
                   waitChan, errWait, pipe, ppc, written, outputBuf, liveOutput,
                   gval, emitted, hist>>

\* CreateCommandRunner: with no project it prints the error and calls
\* os.Exit(1); else it returns the model with one entry per project
CreateRunner ==
    /\ upc = "create"
    /\ IF Len(projects) = 0
       THEN upc' = "fatal" /\ UNCHANGED projects
       ELSE upc' = "setup" /\ projects' = CreateCommandRunner(Len(projects)).projects
    /\ UNCHANGED <<env, status, cancelled, done, cmdWg, msgs, mpc, gpc, proc, waitChan,
                   errWait, pipe, ppc, written, outputBuf, liveOutput, gval,
                   emitted, hist>>

\* one AddCommand or AddOptionalCommand call of the command being run: every
\* new Command has Status "running", a fresh context and an empty Output
Register ==
    /\ upc = "setup"
    /\ \E reg \in {AddCommand(Registry)}
                  \cup {AddOptionalCommand(Registry, S) : S \in SUBSET (1..Len(projects))} :
           /\ NumUnits(reg.projects) <= MaxUnits
           /\ projects' = reg.projects
           /\ status' = [c \in reg.cmds |-> "running"]
           /\ cancelled' = [c \in reg.cmds |-> FALSE]
           /\ outputBuf' = [c \in reg.cmds |-> 0]
    /\ UNCHANGED <<env, done, cmdWg, upc, msgs, mpc, gpc, proc, waitChan, errWait, pipe,
                   ppc, written, liveOutput, gval, emitted, hist>>

\* Run: the program starts and calls model.Init, which adds one to cmdWg and
\* starts one runCommand closure per script of every project
RunInit ==
    /\ upc = "setup"
    /\ upc' = "idle"
    /\ cmdWg' = NumUnits(projects)
    /\ mpc' = [t \in Tasks |-> "start"]
    /\ gpc' = [t \in Tasks |-> "off"]
    /\ proc' = [t \in Tasks |-> "none"]
    /\ waitChan' = [t \in Tasks |-> <<>>]
    /\ errWait' = [t \in Tasks |-> "nil"]
    /\ pipe' = [t \in Tasks |-> [s \in Streams |-> <<>>]]
    /\ ppc' = [t \in Tasks |-> [s \in Streams |-> "off"]]
    /\ liveOutput' = [t \in Tasks |-> <<>>]
    /\ gval' = [t \in Tasks |-> "nil"]
    /\ hist' = [t \in Tasks |-> "none"]
    /\ UNCHANGED <<env, projects, status, cancelled, done, msgs, written, outputBuf,
                   emitted>>

\* model.Init has run
Started == upc \in {"idle", "wgWait", "stopped"}

NextSetup ==
    \/ CreateRunner
    \/ Register
    \/ RunInit
    \/ Started /\ Next

SpecSetup == InitSetup /\ [][NextSetup]_vars

\* scheduling: a goroutine that can take its next step eventually takes it, the
\* exec package eventually kills the process of a done context, and a handler
\* blocked in cmdWg.Wait() returns once the counter is zero. Nothing makes a
\* process end by itself.
MStep(t) ==
    /\ t \in Tasks
    /\ Alive
    /\ (StartFail(t) \/ StartOk(t) \/ Wait(t) \/ SendWait(t) \/ RecvFinal(t))

GStep(t) ==
    /\ t \in Tasks
    /\ Alive
    /\ (GCtxDone(t) \/ GKill(t) \/ GSendCtx(t) \/ GRecv(t) \/ GFwd(t))

KillStep(t) ==
    /\ t \in Tasks
    /\ Alive
    /\ CtxKill(t)

AllPlaces == (1..MaxProjects) \X (1..MaxUnits)

Fairness ==
    /\ \A t \in AllPlaces : WF_vars(MStep(t)) /\ WF_vars(GStep(t)) /\ WF_vars(KillStep(t))
    /\ WF_vars(UpdateQuitReturn)

FairSpec == Spec /\ Fairness

\* the event loop keeps taking messages: a commandFinishedMessage that stays
\* deliverable is eventually handled by Update
EventLoopFairness == WF_vars(\E msg \in msgs : UpdateFinished(msg))

FairRunSpec == Spec /\ Fairness /\ EventLoopFairness

\* ---------------------------------------------------------------- commands
\* The cobra commands build, install and watch: CreateCommandRunner, then a
\* fixed chain of AddOptionalCommand / AddCommand calls, then Run. A predicate
\* func(types.Project) bool is the set of the project indexes it holds for;
\* files[i] is what project i has on disk.

\* the scripts of package.json the commands ask for
ScriptNames == {"start", "watch:dev", "dev"}

\* what a project directory holds: a yarn.lock or not, and the scripts of its
\* package.json
ProjectFiles == [yarn : BOOLEAN, scripts : SUBSET ScriptNames]

\* utils.HasYarn: yarn.lock exists in the project directory
HasYarn(files) == {i \in DOMAIN files : files[i].yarn}

\* a Not that returns its predicate
NotIdentity(n, pred) == pred

\* utils.Not over the n projects
Not(n, pred) == (1..n) \ pred

\* utils.And over the n projects: every predicate of preds holds
And(n, preds) == {i \in 1..n : \A k \in DOMAIN preds : i \in preds[k]}

\* utils.HasScript(name): package.json declares the script
HasScript(files, name) == {i \in DOMAIN files : name \in files[i].scripts}

\* a registry with the command line of every Command: the Commands of reg
\* that r does not know yet were created with command line name
WithScript(r, reg, name) ==
    [reg |-> reg,
     script |-> [c \in reg.cmds |-> IF c \in DOMAIN r.script THEN r.script[c] ELSE name]]

\* m.AddOptionalCommand(shouldAdd, render, name...)
AddOptional(r, shouldAdd, name) ==
    WithScript(r, AddOptionalCommand(r.reg, shouldAdd), name)

\* m.AddCommand(render, name...)
AddAlways(r, name) == WithScript(r, AddCommand(r.reg), name)

\* views.CreateCommandRunner: no Command yet
NewRunner(n) == [reg |-> CreateCommandRunner(n), script |-> <<>>]

\* buildCmd.Run
BuildCmd(files) ==
    LET n == Len(files)
        a == AddOptional(NewRunner(n), HasYarn(files), "yarn build:prod")
    IN  AddOptional(a, Not(n, HasYarn(files)), "npm run build:prod")

\* installCmd.Run
InstallCmd(files) ==
    LET n == Len(files)
        a == AddOptional(NewRunner(n), HasYarn(files), "yarn")
        b == AddOptional(a, Not(n, HasYarn(files)), "npm install")
    IN  AddAlways(b, "composer install")

\* watchCommand.Run
WatchCmd(files) ==
    LET n == Len(files)
        yarn == HasYarn(files)
        npm == Not(n, HasYarn(files))
        noWatchDev == Not(n, HasScript(files, "watch:dev"))
        noDev == Not(n, HasScript(files, "dev"))
        a == AddOptional(NewRunner(n),
                 And(n, <<yarn, HasScript(files, "start"), noWatchDev, noDev>>),
                 "yarn start")
        b == AddOptional(a,
                 And(n, <<npm, HasScript(files, "start"), noWatchDev, noDev>>),
                 "npm run start")
        c == AddOptional(b, And(n, <<yarn, HasScript(files, "watch:dev")>>),
                 "yarn watch:dev")
        d == AddOptional(c, And(n, <<npm, HasScript(files, "watch:dev")>>),
                 "npm run watch:dev")
        e == AddOptional(d, And(n, <<yarn, HasScript(files, "dev")>>), "yarn dev")
    IN  AddOptional(e, And(n, <<npm, HasScript(files, "dev")>>), "npm run dev")

\* the projects are discovered and their files are on disk; no command has
\* run yet
InitCommands ==
    \E n \in 1..MaxProjects : \E files \in [1..n -> ProjectFiles] :
        /\ projects = [i \in 1..n |-> <<>>]
        /\ attrs = files
        /\ upc = "command"
        /\ status = <<>> /\ cancelled = <<>> /\ outputBuf = <<>> /\ script = <<>>
        /\ done = FALSE /\ cmdWg = 0 /\ msgs = {} /\ emitted = 0 /\ written = 0
        /\ mpc = <<>> /\ gpc = <<>> /\ proc = <<>> /\ waitChan = <<>>
        /\ errWait = <<>> /\ pipe = <<>> /\ ppc = <<>> /\ liveOutput = <<>>
        /\ gval = <<>> /\ hist = <<>>
        /\ tree = [dirs |-> {}, proj |-> {}] /\ depth = -1 /\ found = <<>>

\* a command has built the runner r and is about to call Run
Registered(r, name) ==
    /\ upc = "command"
    /\ upc' = name
    /\ projects' = r.reg.projects
    /\ status' = [c \in r.reg.cmds |-> "running"]
    /\ cancelled' = [c \in r.reg.cmds |-> FALSE]
    /\ outputBuf' = [c \in r.reg.cmds |-> 0]
    /\ script' = r.script
    /\ UNCHANGED <<tree, depth, found, attrs, done, cmdWg, msgs, mpc, gpc, proc,
                   waitChan, errWait, pipe, ppc, written, liveOutput, gval,
                   emitted, hist>>

RunBuild == Registered(BuildCmd(attrs), "build")

RunInstall == Registered(InstallCmd(attrs), "install")

RunWatch == Registered(WatchCmd(attrs), "watch")

NextCommands == RunBuild \/ RunInstall \/ RunWatch

SpecCommands == InitCommands /\ [][NextCommands]_vars

\* --------------------------------------------------------------- discovery
\* utils.GetAllProjects on a directory tree. A directory is the sequence of
\* the names that lead to it from the start directory <<>>; tree.dirs are the
\* directories below the start directory, tree.proj the directories (the
\* start directory included) that hold a composer.json and a package.json.

\* the longest path below the start directory
MaxPath == 3

\* the number of directories below the start directory
MaxDirs == 4

BLACKLIST == {"node_modules", ".git", ".idea", "vendor"}

\* the directory names of the trees, in the order os.ReadDir lists them
DirNames == <<"app", "vendor">>

\* the trees with one directory more than dirs
Grow(dirs) ==
    {dirs \cup {Append(d, DirNames[k])} :
        d \in {e \in dirs \cup {<<>>} : Len(e) < MaxPath}, k \in DOMAIN DirNames}

RECURSIVE DirSets(_)
\* the sets of k or fewer directories that form a tree
DirSets(k) ==
    IF k = 0 THEN {{}}
    ELSE LET prev == DirSets(k - 1)
         IN  prev \cup UNION {Grow(dirs) : dirs \in prev}

Trees ==
    UNION {[dirs : {dirs}, proj : SUBSET (dirs \cup {<<>>})] : dirs \in DirSets(MaxDirs)}

\* the values of the depth flag: -1 for no limit
Depths == (0 - 1)..(MaxPath - 1)

\* utils.IsProject
IsProject(tr, dir) == dir \in tr.proj

\* os.ReadDir(dir), the entries with IsDir(): the names of the directories
\* in dir, sorted
ReadDir(tr, dir) ==
    LET Here(name) == Append(dir, name) \in tr.dirs
    IN  SelectSeq(DirNames, Here)

\* the test of line 74: a directory that is not a project is looked into
Descend(dp, level) == dp = 0 - 1 \/ level <= dp

\* a depth test that lets the projects of level depth through
TooDeepOffByOne(dp, level) == dp # 0 - 1 /\ level > dp

\* the test of line 81: the entry is beyond the depth asked for
TooDeep(dp, level) == dp # 0 - 1 /\ level >= dp

RECURSIVE GetAllProjects(_, _, _, _)
RECURSIVE GetAllProjectsLoop(_, _, _, _, _)
\* the loop "for _, file := range files" of GetAllProjects over the entries
\* files: what it appends to projects
GetAllProjectsLoop(tr, dir, dp, level, files) ==
    IF files = <<>> THEN <<>>
    ELSE LET projectDir == Append(dir, Head(files))
             rest == GetAllProjectsLoop(tr, dir, dp, level, Tail(files))
         IN  IF ~IsProject(tr, projectDir) /\ Descend(dp, level)
             THEN (IF Head(files) \notin BLACKLIST
                   THEN GetAllProjects(tr, projectDir, dp, level + 1)
                   ELSE <<>>) \o rest
             ELSE IF TooDeep(dp, level) THEN rest
             ELSE <<projectDir>> \o rest

\* utils.GetAllProjects(dir, depth, level): the directories of the Files it
\* returns, in order
GetAllProjects(tr, dir, dp, level) ==
    (IF IsProject(tr, dir) THEN <<dir>> ELSE <<>>)
        \o GetAllProjectsLoop(tr, dir, dp, level, ReadDir(tr, dir))

RECURSIVE Calls(_, _, _, _)
\* the calls GetAllProjects(dir, depth, level) makes, itself included, as
\* <<directory, level>> pairs
Calls(tr, dir, dp, level) ==
    {<<dir, level>>} \cup
    UNION {Calls(tr, Append(dir, DirNames[k]), dp, level + 1) :
              k \in {j \in DOMAIN DirNames :
                        /\ Append(dir, DirNames[j]) \in tr.dirs
                        /\ ~IsProject(tr, Append(dir, DirNames[j]))
                        /\ Descend(dp, level)
                        /\ DirNames[j] \notin BLACKLIST}}

\* the command has read its flags and stands in the working directory
InitDiscovery ==
    \E tr \in Trees : \E dp \in Depths :
        /\ tree = tr
        /\ depth = dp
        /\ found = <<>>
        /\ upc = "discover"
        /\ projects = <<>> /\ attrs = <<>> /\ script = <<>>
        /\ status = <<>> /\ cancelled = <<>> /\ outputBuf = <<>>
        /\ done = FALSE /\ cmdWg = 0 /\ msgs = {} /\ emitted = 0 /\ written = 0
        /\ mpc = <<>> /\ gpc = <<>> /\ proc = <<>> /\ waitChan = <<>>
        /\ errWait = <<>> /\ pipe = <<>> /\ ppc = <<>> /\ liveOutput = <<>>
        /\ gval = <<>> /\ hist = <<>>

\* CreateCommandRunner calls utils.GetAllProjects on the working directory
\* with level 0 and makes one project of every File
Discover ==
    /\ upc = "discover"
    /\ upc' = "create"
    /\ found' = GetAllProjects(tree, <<>>, depth, 0)
    /\ projects' = [i \in 1..Len(found') |-> <<>>]
    /\ UNCHANGED <<tree, depth, attrs, script, status, cancelled, done, cmdWg,
                   msgs, mpc, gpc, proc, waitChan, errWait, pipe, ppc, written,
                   outputBuf, liveOutput, gval, emitted, hist>>

NextDiscovery == Discover \/ CreateRunner

SpecDiscovery == InitDiscovery /\ [][NextDiscovery]_vars

TypeOK ==
    /\ done \in BOOLEAN
    /\ cmdWg \in 0..MaxUnits
    /\ upc \in {"idle", "wgWait", "stopped"}
    /\ \A c \in DOMAIN status : status[c] \in {"running", "finished", "failed", "exited"}
    /\ \A t \in Tasks : Len(waitChan[t]) <= WaitChanCap

\* ------------------------------------------------------------------ claims
Terminal(st) == st \in {"finished", "failed", "exited"}

StatusAt(t) == status[CmdOf(t)]

\* C1: in every reachable state, done is true if and only if no unit has
\* status "running", for any number of registered units including none.
DoneIffNoneRunning == done <=> ~AnyRunning(status)

\* C2: every final done(success) event that Update has emitted carries
\* success = TRUE if and only if no unit of any project has status "failed";
\* "exited" units do not make success false.
SuccessFold ==
    \A m \in msgs : m.type = "done" =>
        (m.success <=> \A t \in Tasks : StatusAt(t) # "failed")

\* a done(TRUE) event is in flight while some unit is "exited"
SuccessFoldWitness ==
    \E m \in msgs : /\ m.type = "done"
                    /\ m.success
                    /\ \E t \in Tasks : StatusAt(t) = "exited"

\* C3: a unit's status never regresses: once it is terminal, no later step
\* changes it.
StatusMonotonic ==
    [][\A t \in Tasks : Terminal(StatusAt(t)) => StatusAt(t)' = StatusAt(t)]_vars

\* C4: the supervision task never blocks forever on its hand-off: whenever it
\* is at "waitChan <- errWait", either the buffer has room or the helper
\* goroutine is still in its select and can take the value out.
HandOffNeverBlocks ==
    \A t \in Tasks :
        mpc[t] = "send" => (Len(waitChan[t]) < WaitChanCap \/ gpc[t] = "select")

\* C5: once a quit key is handled, cmdWg.Wait() eventually returns and
\* tea.Quit is issued.
QuitEventuallyIssued == (upc = "wgWait") ~> (upc # "wgWait")

\* the message a step of the event loop has just handled
Handled(m) == m \in msgs /\ m \notin msgs'

\* the outcome of task t has been produced and Update has handled it
OutcomeHandled(t) ==
    /\ mpc[t] = "ret"
    /\ ~\E m \in msgs : m.type = "finished" /\ m.index = t[1] /\ m.scriptIndex = t[2]

\* C6: a unit whose token was cancelled before its supervision task produced
\* the outcome ends, once Update has handled that outcome, with status
\* "exited", never "failed" or "finished".
CancelledEndsExited ==
    \A t \in Tasks :
        (hist[t] = "cancelled" /\ OutcomeHandled(t))
            => StatusAt(t) = "exited"

\* C7: a unit has status "exited" only if its process was terminated by a
\* signal the engine sent after the unit's cancellation was requested.
ExitedOnlyByEngineSignal ==
    \A t \in Tasks :
        (OutcomeHandled(t) /\ StatusAt(t) = "exited")
            => (proc[t] = "sigEngine" /\ cancelled[CmdOf(t)])

\* C8: for a unit whose process started and whose cancellation had not been
\* requested when its supervision task returned, exit code 0 gives status
\* "finished" and a non-zero exit code gives "failed".
OutcomeClassification ==
    \A t \in Tasks :
        (hist[t] = "plain" /\ OutcomeHandled(t)) =>
            /\ proc[t] = "exit0" => StatusAt(t) = "finished"
            /\ proc[t] = "exitN" => StatusAt(t) = "failed"

\* one uncancelled unit exited 0 and is "finished", another exited non-zero
\* and is "failed"
OutcomeClassificationWitness ==
    \E t1, t2 \in Tasks :
        /\ hist[t1] = "plain" /\ proc[t1] = "exit0" /\ StatusAt(t1) = "finished"
        /\ hist[t2] = "plain" /\ proc[t2] = "exitN" /\ StatusAt(t2) = "failed"

\* C9: a unit whose process could not be started never has status "running"
\* in the registry.
SpawnFailureNeverRunning ==
    \A t \in Tasks :
        (mpc[t] = "ret" /\ proc[t] = "none") => StatusAt(t) # "running"

\* a step handles the outcome of a unit that failed to start or exited non-zero
FailureHandled(t) ==
    /\ proc[t] \in {"none", "exitN"}
    /\ \E m \in msgs : /\ Handled(m)
                       /\ m.type = "finished"
                       /\ m.index = t[1] /\ m.scriptIndex = t[2]
                       /\ m.err \in {"spawnErr", "exitErr"}

\* C10: failures are local. The step that handles a failed unit's outcome sets
\* that unit to "failed", changes the status of no other unit and cancels no
\* token; the failing task has decremented the WaitGroup; and once the outcomes
\* of all units are handled the run is done, with success = FALSE in the final
\* event if a unit failed.
FailureFrame ==
    \A t \in Tasks :
        FailureHandled(t) =>
            /\ StatusAt(t)' = "failed"
            /\ \A u \in Tasks \ {t} : StatusAt(u)' = StatusAt(u)
            /\ cancelled' = cancelled
            /\ mpc[t] = "ret"
            /\ cmdWg = Cardinality({u \in Tasks : mpc[u] # "ret"})

FailureDone ==
    (Tasks # {} /\ \A t \in Tasks : OutcomeHandled(t)) =>
        /\ done
        /\ \A m \in msgs : (m.type = "done" /\ \E t \in Tasks : StatusAt(t) = "failed")
                               => ~m.success

FailuresLocal == []FailureDone /\ [][FailureFrame]_vars

\* one unit failed to start, the other finished, the run is done and the final
\* event in flight carries success = FALSE
FailuresLocalWitness ==
    \E t1, t2 \in Tasks :
        /\ proc[t1] = "none" /\ hist[t1] = "plain" /\ StatusAt(t1) = "failed"
        /\ proc[t2] = "exit0" /\ StatusAt(t2) = "finished"
        /\ done
        /\ \E m \in msgs : m.type = "done" /\ ~m.success

\* the event loop returns tea.Quit from the quit-key handler in this step
QuitKeyShutdown == upc = "wgWait" /\ upc' # "wgWait"

\* C11: output before outcome. Whenever Update handles a commandOutputMessage
\* of a unit, it has not yet handled that unit's commandFinishedMessage.
OutputBeforeOutcome ==
    [][\A m \in msgs :
          (Handled(m) /\ m.type = "output")
              => ~OutcomeHandled(<<m.index, m.scriptIndex>>)]_vars

\* C12: bounded output memory. For every unit, neither its liveOutput slice
\* nor its Output buffer ever holds more than maxLines (50) lines.
BoundedOutputMemory ==
    \A t \in Tasks :
        /\ Len(liveOutput[t]) <= maxLines
        /\ outputBuf[CmdOf(t)] <= maxLines

\* a step in which the process of t dies of a signal of the engine other than
\* the SIGTERM the helper goroutine sends on leaving its select
ForcedKill(t) ==
    /\ proc[t] = "running"
    /\ proc'[t] = "sigEngine"
    /\ ~(gpc[t] = "select" /\ gpc'[t] = "sleep")

\* C13: escalation order. The process of a cancelled unit is killed by force
\* only by the SIGKILL the helper goroutine sends after SIGTERM and the grace
\* period: no forced kill happens before the helper has slept.
EscalationOrder ==
    [][\A t \in Tasks :
          ForcedKill(t) => (gpc[t] = "sleep" /\ gpc'[t] = "sendctx")]_vars

\* C14: when the quit-key handler returns tea.Quit, every unit's Status in the
\* registry is terminal; none is still "running".
ShutdownOnlyWhenTerminal ==
    [][QuitKeyShutdown => \A t \in Tasks : Terminal(StatusAt(t)')]_vars

\* the helper goroutine of t has sent SIGKILL to the process group
EscalationFinished(t) == gpc[t] \in {"sendctx", "done"}

\* C15: no leaked descendants. A supervision task whose process died of an
\* engine signal does not return (wg.Done) before its helper goroutine has
\* sent SIGKILL to the process group, and when the quit-key handler returns
\* tea.Quit the SIGKILL has been sent to the group of every such unit.
NoLeakedDescendants ==
    [][\A t \in Tasks :
          (/\ proc[t] = "sigEngine"
           /\ \/ (mpc[t] # "ret" /\ mpc'[t] = "ret")
              \/ QuitKeyShutdown)
              => EscalationFinished(t)]_vars

\* the cancellation tokens after Cancel() of the token of unit t alone
CancelOne(t) == [cancelled EXCEPT ![CmdOf(t)] = TRUE]

\* C16: independent cancellation. Cancelling the token of one unit leaves the
\* token of every other unit, of the same or another project, as it was.
IndependentCancellation ==
    \A t \in Tasks : \A u \in Tasks \ {t} :
        CancelOne(t)[CmdOf(u)] = cancelled[CmdOf(u)]

\* C17: single writer. Status, Output buffers, liveOutput and done change only
\* in steps of Update, which are the steps that take a message off the event
\* loop; pumps and supervision tasks only emit events.
SingleWriter ==
    [][(status' # status \/ outputBuf' # outputBuf \/ liveOutput' # liveOutput
            \/ done' # done)
          => \E m \in msgs : Handled(m)]_vars

\* the commandFinishedMessage events of unit t in flight
OutcomesOf(t) ==
    {m \in msgs : m.type = "finished" /\ m.index = t[1] /\ m.scriptIndex = t[2]}

\* C18: exactly one outcome per unit. At most one commandFinishedMessage of a
\* unit is ever in flight, and only once its supervision task has returned;
\* and whenever the unit's process has exited the task eventually returns its
\* commandFinishedMessage.
ExactlyOneOutcome ==
    /\ [](\A t \in Tasks : /\ Cardinality(OutcomesOf(t)) <= 1
                           /\ OutcomesOf(t) # {} => mpc[t] = "ret")
    /\ \A t \in AllPlaces :
           (t \in Tasks /\ Exited(proc[t])) ~> (t \in Tasks /\ mpc[t] = "ret")

\* C19: the final programDoneMessage is emitted at most once per run, and
\* only when the outcome of every unit has been produced and handled.
DoneEmittedOnce ==
    /\ emitted <= 1
    /\ emitted >= 1 => \A t \in Tasks : OutcomeHandled(t)

\* C20: when the run has completed and the program has stopped, its exit code
\* is 0 if no unit is "failed" and non-zero if some unit is "failed".
ExitStatusReflectsSuccess ==
    (upc = "stopped" /\ done) =>
        (RunExitCode = 0 <=> \A t \in Tasks : StatusAt(t) # "failed")

\* the registry as the outcome handler reads it
Cur == [status |-> status, done |-> done, emitted |-> emitted, success |-> "none"]

PendingOutcomes == {m \in msgs : m.type = "finished"}

\* handling two pending outcomes in either order gives the same registry
OutcomesCommute ==
    \A m1, m2 \in PendingOutcomes :
        ApplyFinished(ApplyFinished(Cur, m1), m2)
            = ApplyFinished(ApplyFinished(Cur, m2), m1)

\* the step that handles an outcome stores the status of that outcome for its
\* own unit, recomputes done from all statuses and emits done at most once
FoldStep ==
    \A m \in msgs :
        (Handled(m) /\ m.type = "finished") =>
            /\ status' = ApplyFinished(Cur, m).status
            /\ StatusAt(<<m.index, m.scriptIndex>>)' = StatusOf(m.err)
            /\ \A u \in Tasks \ {<<m.index, m.scriptIndex>>} : StatusAt(u)' = StatusAt(u)
            /\ done' = (\A u \in Tasks : StatusAt(u)' # "running")
            /\ emitted' = IF done' THEN emitted + 1 ELSE emitted
            /\ emitted' <= 1

\* C21: order independence. Whatever the arrival order of the outcome events,
\* the final statuses, the done flag and the success value are the same:
\* handling any two pending outcomes commutes, each outcome sets the status of
\* its own unit only, and the aggregate is recomputed from all statuses on
\* every outcome without emitting the final event twice.
OrderIndependence == []OutcomesCommute /\ [][FoldStep]_vars

\* two units with different outcomes have both been handled and the final
\* event was emitted once
OrderIndependenceWitness ==
    \E t1, t2 \in Tasks :
        /\ OutcomeHandled(t1) /\ OutcomeHandled(t2)
        /\ StatusAt(t1) = "failed" /\ StatusAt(t2) = "finished"
        /\ done /\ emitted = 1

\* C22: every unit belongs to exactly one project. Handling the outcome of
\* unit j of project i changes no Status seen through any other project.
OneProjectPerUnit ==
    [][\A m \in msgs :
          (Handled(m) /\ m.type = "finished") =>
              \A u \in Tasks : u[1] # m.index => StatusAt(u)' = StatusAt(u)]_vars

\* C23: fixed registry shape. No step of the run adds, removes or reorders a
\* project or a unit: the projects and their unit lists never change.
RegistryShapeFixed == [][projects' = projects]_vars

\* the program has stopped after Update handled output, the outcome and the
\* final event of a registered unit
RegistryShapeFixedWitness ==
    /\ upc = "stopped"
    /\ done
    /\ \E t \in Tasks : Len(liveOutput[t]) > 0 /\ OutcomeHandled(t)

\* no cancellation has been requested
NoCancellation == \A c \in DOMAIN cancelled : ~cancelled[c]

\* the quit key has been handled: tokens are cancelled, or the handler is in
\* cmdWg.Wait(), has returned tea.Quit, or the program has stopped
QuitRequested ==
    \/ ~NoCancellation
    \/ upc # "idle"
    \/ QuitMsg \in msgs

\* the process of every registered unit has exited or failed to start
AllProcessesOver ==
    \A t \in Tasks : Exited(proc[t]) \/ (proc[t] = "none" /\ mpc[t] = "ret")

\* C24: run-level liveness. Once the process of every registered unit has
\* exited or failed to start, and unless a cancellation is requested, the run
\* eventually is done (the final event is emitted in the same step), for any
\* registry including one without any unit.
RunLiveness ==
    (NoCancellation /\ AllProcessesOver) ~> (done \/ QuitRequested)

\* C25: if discovery returns no project, CreateCommandRunner ends in the fatal
\* exit; in that state no unit is registered and no supervision task or
\* process exists, and nothing happens after it.
FatalOnNoProjects ==
    /\ [][(upc = "create" /\ projects = <<>>) => upc' = "fatal"]_vars
    /\ [](upc = "fatal" =>
             /\ projects = <<>>
             /\ DOMAIN status = {}
             /\ DOMAIN mpc = {} /\ DOMAIN proc = {}
             /\ cmdWg = 0)
    /\ [][upc # "fatal"]_vars

\* CreateCommandRunner has exited on an empty project list
FatalOnNoProjectsWitness == upc = "fatal" /\ projects = <<>>

\* C26: output-event frame. Handling a commandOutputMessage of unit (i, j)
\* appends the line to the liveOutput of (i, j) and leaves every Status, the
\* done flag, every token, every Output buffer and the liveOutput of every
\* other unit unchanged.
OutputFrame ==
    [][\A m \in msgs :
          (Handled(m) /\ m.type = "output") =>
              LET t == <<m.index, m.scriptIndex>>
              IN  /\ Len(liveOutput'[t]) > 0
                  /\ liveOutput'[t][Len(liveOutput'[t])] = m.output
                  /\ \A u \in Tasks \ {t} : liveOutput'[u] = liveOutput[u]
                  /\ status' = status
                  /\ done' = done
                  /\ cancelled' = cancelled
                  /\ outputBuf' = outputBuf]_vars

\* a line of the second script of a project has been appended while the first
\* script of that project has no line
OutputFrameWitness ==
    \E t, u \in Tasks :
        /\ t[1] = u[1] /\ t[2] = 2 /\ u[2] = 1
        /\ Len(liveOutput[t]) > 0
        /\ liveOutput[u] = <<>>

\* C27: per-project aggregates. allFinished of a project is true exactly when
\* every unit of the project has a terminal status (finished, failed or
\* exited), and hasError exactly when some unit of it is failed.
PerProjectAggregates ==
    \A i \in 1..Len(projects) :
        /\ allFinished(i) <=> \A j \in 1..Len(projects[i]) : Terminal(status[projects[i][j]])
        /\ hasError(i) <=> \E j \in 1..Len(projects[i]) : status[projects[i][j]] = "failed"

\* C28: per-unit line order. Within the liveOutput of a unit, the lines of one
\* stream appear in the order in which the process wrote them.
LineOrder ==
    \A t \in Tasks : \A i, j \in 1..Len(liveOutput[t]) :
        (i < j /\ liveOutput[t][i][1] = liveOutput[t][j][1])
            => liveOutput[t][i][2] < liveOutput[t][j][2]

\* a stderr line was appended between two stdout lines written after it
LineOrderWitness ==
    \E t \in Tasks :
        /\ Len(liveOutput[t]) = 3
        /\ liveOutput[t][1][1] = "stdout"
        /\ liveOutput[t][2] = <<"stderr", 1>>
        /\ liveOutput[t][3][1] = "stdout"

\* the number of output events of unit t that Update has handled: the lines
\* the pumps have sent less those still in flight
HandledCount(t) ==
    outputBuf[CmdOf(t)]
        - Cardinality({m \in msgs : m.type = "output" /\ m.index = t[1]
                                      /\ m.scriptIndex = t[2]})

\* C29: most-recent-N retention. After n output events of a unit (here the
\* lines 1..n of stdout, in arrival order) its liveOutput is exactly the last
\* min(n, maxLines) of them, in arrival order.
Retention ==
    \A t \in Tasks :
        LET n == HandledCount(t)
            k == IF n < maxLines THEN n ELSE maxLines
        IN  liveOutput[t] = [i \in 1..k |-> <<"stdout", n - k + i>>]

\* 51 events were handled: the oldest line was dropped
RetentionWitness ==
    \E t \in Tasks :
        /\ HandledCount(t) = maxLines + 1
        /\ Len(liveOutput[t]) = maxLines
        /\ liveOutput[t][1] = <<"stdout", 2>>

\* C30: WaitGroup accounting. cmdWg is never negative and equals the number
\* of supervision tasks that have not returned yet.
WaitGroupAccounting ==
    /\ cmdWg >= 0
    /\ cmdWg = Cardinality({t \in Tasks : mpc[t] # "ret"})

\* one task has returned after a start error, another after its process was
\* cancelled, and the counter is zero
WaitGroupAccountingWitness ==
    \E t, u \in Tasks :
        /\ mpc[t] = "ret" /\ proc[t] = "none"
        /\ mpc[u] = "ret" /\ proc[u] = "sigEngine"
        /\ cmdWg = 0

\* C31: the error carried by the commandFinishedMessage of a unit whose
\* process started and whose token was not cancelled when the supervision
\* task returned is the value c.Wait() returned for that unit's process,
\* whichever way the waitChan hand-off went.
OutcomeIsWaitValue ==
    \A t \in Tasks :
        (hist[t] = "plain" /\ proc[t] # "none") =>
            \A m \in OutcomesOf(t) :
                m.err = errWait[t] /\ m.err = WaitErr(proc[t])

\* a non-zero exit reached the event loop after the helper goroutine received
\* and forwarded it, and another after the task read its own value back
OutcomeIsWaitValueWitness ==
    \E t, u \in Tasks :
        /\ hist[t] = "plain" /\ gpc[t] = "done"
        /\ \E m \in OutcomesOf(t) : m.err = "exitErr"
        /\ hist[u] = "plain" /\ gpc[u] = "select"
        /\ \E m \in OutcomesOf(u) : m.err = "exitErr"

\* the helper goroutine of t sends SIGTERM or SIGKILL to the process group
SignalSent(t) ==
    \/ gpc[t] = "select" /\ gpc'[t] = "sleep"
    \/ gpc[t] = "sleep" /\ gpc'[t] = "sendctx"

\* C32: no signal to a finished unit. The engine sends no signal to the
\* process group of a unit whose supervision task has returned its outcome.
NoSignalAfterOutcome ==
    [][\A t \in Tasks : SignalSent(t) => mpc[t] # "ret"]_vars

\* the units AddOptionalCommand and AddCommand append to the registry built so
\* far: one new unit at the end of exactly the projects asked for
RegistrationShape ==
    upc = "setup" =>
        LET n == Len(projects)
            Grows(r, S) ==
                /\ Len(r.projects) = n
                /\ \A i \in 1..n :
                      IF i \in S
                      THEN /\ Len(r.projects[i]) = Len(projects[i]) + 1
                           /\ SubSeq(r.projects[i], 1, Len(projects[i])) = projects[i]
                           /\ r.projects[i][Len(r.projects[i])] \notin DOMAIN status
                      ELSE r.projects[i] = projects[i]
        IN  /\ \A S \in SUBSET (1..n) : Grows(AddOptionalCommand(Registry, S), S)
            /\ Grows(AddCommand(Registry), 1..n)

\* the outcome a supervision task returns carries the indexes the task was
\* started with, and Update stores it at those indexes
IndexStep ==
    /\ \A t \in Tasks :
          (Started /\ mpc[t] # "ret" /\ mpc'[t] = "ret") =>
              \E m \in msgs' \ msgs :
                  m.type = "finished" /\ m.index = t[1] /\ m.scriptIndex = t[2]
    /\ \A m \in msgs :
          (Handled(m) /\ m.type = "finished") =>
              /\ <<m.index, m.scriptIndex>> \in Tasks
              /\ mpc[<<m.index, m.scriptIndex>>] = "ret"
              /\ status'[projects[m.index][m.scriptIndex]] = StatusOf(m.err)

\* C33: conditional registration. AddOptionalCommand appends a unit to a
\* project if and only if the predicate holds for it, AddCommand appends one
\* to every project, and the (project index, unit index) a supervision task is
\* started with is the index at which Update stores its outcome.
ConditionalRegistration == []RegistrationShape /\ [][IndexStep]_vars

\* of two projects only the second got a unit, whose failure Update stored
ConditionalRegistrationWitness ==
    /\ Started
    /\ Len(projects) = 2
    /\ Len(projects[1]) = 0 /\ Len(projects[2]) = 1
    /\ OutcomeHandled(<<2, 1>>)
    /\ StatusAt(<<2, 1>>) = "failed"

\* the command lines of the units project i holds
UnitsOf(i) == [j \in 1..Len(projects[i]) |-> script[projects[i][j]]]

\* the units of project i whose command line is one of names
CountOf(i, names) == Cardinality({j \in 1..Len(projects[i]) : UnitsOf(i)[j] \in names})

AtMostOneWatchUnit ==
    upc = "watch" => \A i \in 1..Len(projects) : Len(projects[i]) <= 1

\* discovery has returned
Discovered == upc \in {"create", "setup", "fatal"}

\* the directories of the result
Found == {found[i] : i \in DOMAIN found}

\* dir lies beneath a directory with a blacklisted name
BeneathBlacklisted(dir) ==
    \E k \in 1..(Len(dir) - 1) : dir[k] \in BLACKLIST

\* C36: discovery returns no directory whose name is in the blacklist and
\* no directory beneath such a directory, and it returns each project
\* directory at most once.
DiscoverySkipsBlacklist ==
    Discovered =>
        /\ \A dir \in Found :
               /\ dir # <<>> => dir[Len(dir)] \notin BLACKLIST
               /\ ~BeneathBlacklisted(dir)
        /\ \A i, j \in DOMAIN found : found[i] = found[j] => i = j

\* the directories discovery may look into when no depth limit applies:
\* every directory on the way is neither a project nor blacklisted
Open(dir) ==
    \A k \in 1..Len(dir) :
        /\ SubSeq(dir, 1, k) \notin tree.proj
        /\ dir[k] \notin BLACKLIST

\* C37: discovery returns (the result is a finite list of projects of the
\* tree); with depth d >= 0 and level 0 at the start it calls itself on no
\* directory at a level above d + 1 and returns no project other than the
\* start directory from a level >= d, that is no directory more than d
\* names below the start; with depth -1 every project that no project and
\* no blacklisted directory hides is returned.
DiscoveryDepthBounded ==
    Discovered =>
        /\ Found \subseteq tree.proj
        /\ Len(found) <= Cardinality(tree.dirs) + 1
        /\ depth >= 0 =>
               /\ \A c \in Calls(tree, <<>>, depth, 0) :
                      c[2] = Len(c[1]) /\ c[2] <= depth + 1
               /\ \A dir \in Found : Len(dir) <= depth
        /\ depth = 0 - 1 =>
               \A dir \in tree.proj :
                   (dir = <<>> \/ Open(SubSeq(dir, 1, Len(dir) - 1))) => dir \in Found

\* with depth 1 the call at level 2 is made, a project one name below the
\* start is returned and a project two names below it is not
DiscoveryDepthBoundedWitness ==
    /\ Discovered
    /\ depth = 1
    /\ <<<<"app", "app">>, 2>> \in Calls(tree, <<>>, depth, 0)
    /\ <<"vendor">> \in Found
    /\ <<"app", "app", "app">> \in tree.proj
    /\ <<"app", "app", "app">> \notin Found

====
